---- MODULE Spec2Model ----
(***************************************************************************)
(* Model of the shop recommendation backend (recommendation_module.py):    *)
(* the fuzzy matcher with its training cache, the two dataframes, path    *)
(* generation and the commit of a selected path.                           *)
(*                                                                         *)
(* A string is a sequence of one-character strings, so that the scorer can *)
(* look at its characters.                                                 *)
(***************************************************************************)
EXTENDS Integers, Sequences, FiniteSets, TLC

(***************************************************************************)
(* Characters and strings                                                  *)
(***************************************************************************)
LowerCase == <<"a","b","c","d","e","f","g","h","i","j","k","l","m",
               "n","o","p","q","r","s","t","u","v","w","x","y","z">>
UpperCase == <<"A","B","C","D","E","F","G","H","I","J","K","L","M",
               "N","O","P","Q","R","S","T","U","V","W","X","Y","Z">>
Digits == <<"0","1","2","3","4","5","6","7","8","9">>

\* The characters of the model in code point order (sorted() compares code points).
AsciiOrder == <<" ", "'", "-">> \o Digits \o UpperCase \o <<"_">> \o LowerCase

Ord(c) == CHOOSE i \in 1..Len(AsciiOrder) : AsciiOrder[i] = c

Range(s) == {s[i] : i \in 1..Len(s)}

IsWordChar(c) == c \in Range(LowerCase) \cup Range(UpperCase) \cup Range(Digits) \cup {"_"}

ToLower(c) ==
    IF c \in Range(UpperCase)
    THEN LowerCase[CHOOSE i \in 1..Len(UpperCase) : UpperCase[i] = c]
    ELSE c

Max(x, y) == IF x >= y THEN x ELSE y

Min(x, y) == IF x <= y THEN x ELSE y

SetMax(S) == CHOOSE x \in S : \A y \in S : y <= x

SetMin(S) == CHOOSE x \in S : \A y \in S : x <= y

\* The element of a one-element set.  { F(x) : x \in {e} } computes e once and
\* F of its value, which is how a local variable of the code is modelled where
\* its value is used many times.
The(S) == CHOOSE x \in S : TRUE

\* str.strip(): without the leading and trailing spaces.
Strip(s) ==
    LET ns == {i \in 1..Len(s) : s[i] # " "}
    IN  IF ns = {} THEN <<>> ELSE SubSeq(s, SetMin(ns), SetMax(ns))

\* utils.full_process: every non-word character becomes a space, then lower case, then strip.
full_process(s) ==
    Strip([i \in 1..Len(s) |-> IF IsWordChar(s[i]) THEN ToLower(s[i]) ELSE " "])

\* str.split(): the maximal runs of non-space characters, in order.
Split(s) ==
    LET starts == {i \in 1..Len(s) : s[i] # " " /\ (i = 1 \/ s[i - 1] = " ")}
        nth(n) == CHOOSE i \in starts : Cardinality({k \in starts : k < i}) = n - 1
        end(i) == SetMin({j \in i..Len(s) : j = Len(s) \/ s[j + 1] = " "})
    IN  [n \in 1..Cardinality(starts) |-> SubSeq(s, nth(n), end(nth(n)))]

\* a < b for Python strings: the first differing code point decides, a proper prefix is smaller.
StrLess(a, b) ==
    LET diff == {i \in 1..Min(Len(a), Len(b)) : a[i] # b[i]}
    IN  IF diff = {} THEN Len(a) < Len(b)
        ELSE Ord(a[SetMin(diff)]) < Ord(b[SetMin(diff)])

RECURSIVE InsertToken(_, _)
InsertToken(t, sorted) ==
    IF sorted = <<>> THEN <<t>>
    ELSE IF StrLess(t, Head(sorted)) THEN <<t>> \o sorted
    ELSE <<Head(sorted)>> \o InsertToken(t, Tail(sorted))

\* sorted(tokens)
RECURSIVE SortedTokens(_)
SortedTokens(ts) ==
    IF Len(ts) = 0 THEN <<>> ELSE InsertToken(Head(ts), SortedTokens(Tail(ts)))

\* " ".join(tokens)
RECURSIVE Join(_)
Join(ts) ==
    IF Len(ts) = 0 THEN <<>>
    ELSE IF Len(ts) = 1 THEN Head(ts)
    ELSE Head(ts) \o <<" ">> \o Join(Tail(ts))

\* fuzz._process_and_sort with full_process=False: split, sort the tokens, join, strip.
process_and_sort(s) == Strip(Join(SortedTokens(Split(s))))

(***************************************************************************)
(* The two sequence matchers fuzzywuzzy can be built on                    *)
(***************************************************************************)
\* Length of the common run of a[i..ahi] and b[j..bhi] starting at i and j.
CommonRun(a, b, i, j, ahi, bhi) ==
    SetMax({k \in 0..Min(ahi - i + 1, bhi - j + 1) :
               \A t \in 0..(k - 1) : a[i + t] = b[j + t]})

\* difflib find_longest_match: the longest block, of those the earliest in a, then in b.
find_longest_match(a, b, alo, ahi, blo, bhi) ==
    LET Longest(runs) ==
            LET size == SetMax({r.size : r \in runs})
                i == SetMin({r.i : r \in {x \in runs : x.size = size}})
                j == SetMin({r.j : r \in {x \in runs : x.size = size /\ x.i = i}})
            IN  [i |-> i, j |-> j, size |-> size]
    IN  The({Longest(runs) :
                runs \in {{[i |-> p[1], j |-> p[2],
                            size |-> CommonRun(a, b, p[1], p[2], ahi, bhi)] :
                                p \in (alo..ahi) \X (blo..bhi)}}})

\* difflib get_matching_blocks: total size of the blocks found by recursing left and right.
RECURSIVE matching_size(_, _, _, _, _, _)
matching_size(a, b, alo, ahi, blo, bhi) ==
    IF alo > ahi \/ blo > bhi THEN 0
    ELSE LET Blocks(m) ==
                 IF m.size = 0 THEN 0
                 ELSE m.size
                      + matching_size(a, b, alo, m.i - 1, blo, m.j - 1)
                      + matching_size(a, b, m.i + m.size, ahi, m.j + m.size, bhi)
         IN  The({Blocks(m) : m \in {find_longest_match(a, b, alo, ahi, blo, bhi)}})

\* One row of the longest-common-subsequence table, from the row before it.
RECURSIVE LcsRow(_, _, _, _)
LcsRow(c, b, prev, acc) ==
    IF Len(acc) = Len(b) THEN acc
    ELSE LET j == Len(acc) + 1
             diag == IF j = 1 THEN 0 ELSE prev[j - 1]
             left == IF j = 1 THEN 0 ELSE acc[j - 1]
             v == IF c = b[j] THEN diag + 1 ELSE Max(prev[j], left)
         IN  The({LcsRow(c, b, prev, next) : next \in {Append(acc, v)}})

RECURSIVE LcsRows(_, _, _)
LcsRows(a, b, rows) ==
    IF Len(rows) = Len(a) + 1 THEN rows
    ELSE The({LcsRows(a, b, next) :
                 next \in {Append(rows, LcsRow(a[Len(rows)], b, rows[Len(rows)], <<>>))}})

\* python-Levenshtein ratio: (lensum - distance) / lensum with substitutions costing 2,
\* which is 2 * LCS / lensum.
Lcs(a, b) ==
    IF Len(a) = 0 \/ Len(b) = 0 THEN 0
    ELSE LcsRows(a, b, <<[j \in 1..Len(b) |-> 0]>>)[Len(a) + 1][Len(b)]

Matchers == {"difflib", "levenshtein"}

Matches(sm, a, b) ==
    IF sm = "difflib"
    THEN matching_size(a, b, 1, Len(a), 1, Len(b))
    ELSE Lcs(a, b)

\* The ratio 2.0 * m / t and its product with 100 are IEEE doubles.  A product
\* that is not half-way between two integers is too far from the half for the
\* rounding of the doubles to matter.  A half-way one is (n / 200) * 100 for an
\* odd n below 200, and the double is the exact half for all n but two:
\* 100 * (115 / 200) is 57.49999999999999 and 100 * (109 / 200) is
\* 54.50000000000001.
FloatBelowHalf == {115}

FloatAboveHalf == {109}

\* utils.intr(100 * (2.0 * m / t)): int(round(x)) of the double x, which takes an
\* exact half to the even integer.
RoundedPercent(m, t) ==
    LET q == (200 * m) \div t
        r == (200 * m) % t
        n == 2 * q + 1
    IN  IF 2 * r > t THEN q + 1
        ELSE IF 2 * r < t THEN q
        ELSE IF n \in FloatBelowHalf THEN q
        ELSE IF n \in FloatAboveHalf THEN q + 1
        ELSE IF q % 2 = 0 THEN q ELSE q + 1

\* fuzz.ratio: 100 for equal strings, 0 when one is empty, else the rounded ratio.
ratio(sm, s1, s2) ==
    IF s1 = s2 THEN 100
    ELSE IF s1 = <<>> \/ s2 = <<>> THEN 0
    ELSE RoundedPercent(Matches(sm, s1, s2), Len(s1) + Len(s2))

\* fuzz.token_sort_ratio as process.extractOne calls it: both sides through full_process.
token_sort_ratio(sm, s1, s2) ==
    The({ratio(sm, sorted1, sorted2) :
            sorted1 \in {process_and_sort(full_process(s1))},
            sorted2 \in {process_and_sort(full_process(s2))}})

(***************************************************************************)
(* Bounds of the model                                                     *)
(***************************************************************************)
\* A request has at most this many items.
MaxItems == 2

\* evaluate_recommendations is not called once a shop's queue_size has reached this.
MaxQueue == 2

\* selected_path_index ranges over 0 .. MaxPathIndex (the endpoint passes none: 0).
MaxPathIndex == 1

(***************************************************************************)
(* The strings of the model                                                *)
(***************************************************************************)
sMeat == <<"M","e","a","t">>
sGroceries == <<"G","r","o","c","e","r","i","e","s">>
sLobster == <<"l","o","b","s","t","e","r">>
sChicken == <<"c","h","i","c","k","e","n">>
sRice == <<"r","i","c","e">>
qMeat == <<"m","e","a","t">>
qMeats == <<"m","e","a","t","s">>
qGrocery == <<"g","r","o","c","e","r","y">>
qLobs == <<"l","o","b","s">>
qGibberish == <<"x","q">>

\* What a request can ask for: exact names, near misses and gibberish.
CategoryQueries == {qMeat, qMeats, qGrocery, qGibberish}
ProductQueries == {sLobster, qLobs, sRice}

\* Python's None where a string is expected: no string of characters.
None == <<"None">>

\* Python truthiness of a string or None.
Truthy(x) == x # None /\ x # <<>>

(***************************************************************************)
(* The datasets as read_csv loads them (lines 13-14): a dataframe is the   *)
(* sequence of its rows, a row a record of its columns.  The columns store,*)
(* latitude and longitude are carried through to the response unchanged    *)
(* and are left out.                                                       *)
(***************************************************************************)
InvRow(shop, product, category, stock) ==
    [shopId |-> shop, productName |-> product, category |-> category,
     stockAvailability |-> stock]

\* An inventory file without a category column.
InvRowNoCategory(shop, product, stock) ==
    [shopId |-> shop, productName |-> product, stockAvailability |-> stock]

ShopRow(shop, category, rating, price, queue) ==
    [shopId |-> shop, category |-> category, rating |-> rating, price |-> price,
     queue_size |-> queue]

\* Distinct ratings; shop 1 is the best shop for lobster and for rice.
CatalogDistinct ==
    [inventory |-> << InvRow(1, sLobster, sMeat, 1),
                      InvRow(2, sChicken, sMeat, 1),
                      InvRow(1, sRice, sGroceries, 2),
                      InvRow(2, sRice, sGroceries, 1),
                      InvRow(3, sLobster, sMeat, 0) >>,
     shopdata  |-> << ShopRow(1, sMeat, 5, 30, 1),
                      ShopRow(2, sGroceries, 4, 10, 0),
                      ShopRow(3, sMeat, 3, 20, 0) >>]

\* Shops 1 and 3 are rated the same; only shop 1 sells rice.
CatalogTied ==
    [inventory |-> << InvRow(1, sLobster, sMeat, 1),
                      InvRow(3, sLobster, sMeat, 1),
                      InvRow(1, sRice, sGroceries, 1),
                      InvRow(2, sChicken, sMeat, 0) >>,
     shopdata  |-> << ShopRow(1, sMeat, 4, 30, 1),
                      ShopRow(2, sGroceries, 5, 10, 0),
                      ShopRow(3, sMeat, 4, 20, 0) >>]

\* The inventory has no category column, so no retry within the category.
CatalogNoCategory ==
    [inventory |-> << InvRowNoCategory(1, sLobster, 1),
                      InvRowNoCategory(2, sRice, 0) >>,
     shopdata  |-> << ShopRow(1, sMeat, 5, 30, 0),
                      ShopRow(2, sGroceries, 4, 10, 0) >>]

Catalogs == {CatalogDistinct, CatalogTied, CatalogNoCategory}

\* What the training file can hold at startup (lines 21-25): nothing, or
\* mappings accepted against an earlier catalog.
\* Each of its two dicts is a function from the queries it has to their terms.
EmptyTraining == [categories |-> <<>>, products |-> <<>>]

sLobsters == <<"l","o","b","s","t","e","r","s">>

StaleTraining == [categories |-> <<>>, products |-> (qLobs :> sLobsters)]

TrainingFiles == {EmptyTraining, StaleTraining}

(***************************************************************************)
(* An insertion-ordered dict (matched_results, final_shop_recommendations) *)
(* is the sequence of its (key, value) items.                              *)
(***************************************************************************)
Item(k, v) == [key |-> k, value |-> v]

Keys(d) == {d[i].key : i \in 1..Len(d)}

\* d[k] = v: a new key goes to the end, an existing key keeps its place and
\* takes the new value.
SetItem(d, k, v) ==
    IF k \in Keys(d)
    THEN [i \in 1..Len(d) |-> IF d[i].key = k THEN Item(k, v) ELSE d[i]]
    ELSE Append(d, Item(k, v))

(***************************************************************************)
(* Dataframe helpers                                                       *)
(***************************************************************************)
\* Series.unique(): the distinct values in order of first appearance.
RECURSIVE Unique(_)
Unique(values) ==
    IF Len(values) = 0 THEN <<>>
    ELSE LET last == values[Len(values)]
             Add(rest) ==
                 IF \E i \in 1..Len(rest) : rest[i] = last THEN rest
                 ELSE Append(rest, last)
         IN  The({Add(rest) : rest \in {Unique(SubSeq(values, 1, Len(values) - 1))}})

Column(rows, name) == [i \in 1..Len(rows) |-> rows[i][name]]

\* lines 17-18
unique_products(inventory) == Unique(Column(inventory, "productName"))
unique_categories(shopdata) == Unique(Column(shopdata, "category"))

\* DataFrame.head(n)
head(rows, n) == SubSeq(rows, 1, Min(n, Len(rows)))

\* DataFrame.sort_values(by=column): rows with equal keys keep their order, as
\* numpy's sort does on the short frames of the model (an insertion sort).
RECURSIVE InsertRow(_, _, _, _)
InsertRow(row, sorted, column, ascending) ==
    IF Len(sorted) = 0 THEN <<row>>
    ELSE LET first == Head(sorted)
             goesAfter == IF ascending THEN first[column] <= row[column]
                          ELSE first[column] >= row[column]
         IN  IF goesAfter THEN <<first>> \o InsertRow(row, Tail(sorted), column, ascending)
             ELSE <<row>> \o sorted

RECURSIVE sort_values(_, _, _)
sort_values(rows, column, ascending) ==
    IF Len(rows) = 0 THEN <<>>
    ELSE The({InsertRow(rows[Len(rows)], sorted, column, ascending) :
                sorted \in {sort_values(SubSeq(rows, 1, Len(rows) - 1), column,
                                        ascending)}})

(***************************************************************************)
(* The fuzzy matcher (lines 27-40)                                         *)
(***************************************************************************)
THRESHOLD == 75

\* The strings fuzzy_match is asked about and the terms it is given to choose from.
AllQueries == CategoryQueries \cup ProductQueries

AllChoices == {sMeat, sGroceries, sLobster, sChicken, sRice}

\* token_sort_ratio over the strings of the model, computed once.
ScoreTable ==
    [sm \in Matchers, q \in AllQueries, c \in AllChoices |-> token_sort_ratio(sm, q, c)]

\* extractOne handing back the processed choice it scored instead of the choice itself.
extractOne_processed(sm, query, choices) ==
    LET Best(scores) ==
            LET best == SetMax({scores[i] : i \in 1..Len(scores)})
                first == SetMin({i \in 1..Len(scores) : scores[i] = best})
            IN  [found |-> TRUE, match |-> full_process(choices[first]), score |-> best]
    IN  IF Len(choices) = 0 THEN [found |-> FALSE, match |-> None, score |-> 0]
        ELSE The({Best(scores) :
                    scores \in {[i \in 1..Len(choices) |->
                                    ScoreTable[sm, query, choices[i]]]}})

\* process.extractOne(query, choices, scorer=fuzz.token_sort_ratio): the first
\* choice with the highest score and that score; nothing when there are no choices.
extractOne(sm, query, choices) ==
    LET Best(scores) ==
            LET best == SetMax({scores[i] : i \in 1..Len(scores)})
                first == SetMin({i \in 1..Len(scores) : scores[i] = best})
            IN  [found |-> TRUE, match |-> choices[first], score |-> best]
    IN  IF Len(choices) = 0 THEN [found |-> FALSE, match |-> None, score |-> 0]
        ELSE The({Best(scores) :
                    scores \in {[i \in 1..Len(choices) |->
                                    ScoreTable[sm, query, choices[i]]]}})

\* train_fuzzy_match without the test for an existing key.
train_fuzzy_match_overwrite(training, query, actual, category_type) ==
    [training EXCEPT ![category_type] = (query :> actual) @@ @]

\* line 29: the term is stored under the query.
store_entry(training, query, actual, category_type) ==
    [training EXCEPT ![category_type] = (query :> actual) @@ @]

\* train_fuzzy_match: an existing key keeps its term; the file is written either way.
train_fuzzy_match(training, query, actual, category_type) ==
    IF query \in DOMAIN training[category_type]
    THEN training
    ELSE store_entry(training, query, actual, category_type)

\* fuzzy_match: what it returns, whether it raised, the training data after it and
\* whether the training file was written.
fuzzy_match(sm, training, query, choices, category_type) ==
    IF query \in DOMAIN training[category_type]
    THEN [ret |-> training[category_type][query], raised |-> FALSE,
          training |-> training, wrote |-> FALSE]
    ELSE LET Decide(best) ==
                 IF ~best.found
                 THEN \* line 36: extractOne gave no (match, score) pair to unpack
                      [ret |-> None, raised |-> TRUE, training |-> training,
                       wrote |-> FALSE]
                 ELSE IF best.score >= THRESHOLD
                 THEN [ret |-> best.match, raised |-> FALSE,
                       training |-> train_fuzzy_match(training, query, best.match,
                                                      category_type),
                       wrote |-> TRUE]
                 ELSE [ret |-> None, raised |-> FALSE, training |-> training,
                       wrote |-> FALSE]
         IN  The({Decide(best) : best \in {extractOne(sm, query, choices)}})

(***************************************************************************)
(* evaluate_recommendations (lines 65-172), a step at a time               *)
(***************************************************************************)
TOP_N == 10

NUM_PATHS == 5

Columns(rows) == DOMAIN rows[1]

\* line 91: the products of the inventory rows of a category, in order of appearance.
category_products(inventory, category) ==
    LET InCategory(row) == row.category = category
    IN  IF "category" \in Columns(inventory) /\ Truthy(category)
        THEN Unique(Column(SelectSeq(inventory, InCategory), "productName"))
        ELSE <<>>

\* lines 88-93: a product the vocabulary did not give is looked for among the
\* products of the matched category, and the best-scoring one is taken
\* whatever its score.
retry_product(sm, inventory, matched_category, product, matched_product) ==
    LET Among(among) ==
            IF Len(among) > 0 THEN extractOne(sm, product, among).match
            ELSE matched_product
    IN  IF Truthy(matched_product) THEN matched_product
        ELSE The({Among(among) :
                    among \in {category_products(inventory, matched_category)}})

\* lines 94-95: the pair is kept under its category; a category already there
\* takes the new product.
keep_match(matched_results, matched_category, matched_product) ==
    IF Truthy(matched_category) /\ Truthy(matched_product)
    THEN SetItem(matched_results, matched_category, matched_product)
    ELSE matched_results

\* lines 86-93: one item of the request.
match_item(sm, inventory, shopdata, training, category, product) ==
    LET Retry(c, p) ==
            [category |-> c.ret,
             product |-> retry_product(sm, inventory, c.ret, product, p.ret),
             global_product |-> p.ret,
             training |-> p.training, wrote |-> c.wrote \/ p.wrote]
        Product(c, products) ==
            The({Retry(c, p) :
                    p \in {fuzzy_match(sm, c.training, product, products, "products")}})
    IN  The({Product(c, products) :
                c \in {The({fuzzy_match(sm, training, category, categories, "categories") :
                              categories \in {unique_categories(shopdata)}})},
                products \in {unique_products(inventory)}})

\* lines 83-95: the loop over the request; acc carries matched_results, the
\* training data and whether the training file was written.
RECURSIVE match_items(_, _, _, _, _)
match_items(sm, inventory, shopdata, request, acc) ==
    IF Len(request) = 0 THEN acc
    ELSE LET Add(m) ==
                 [matched_results |-> keep_match(acc.matched_results, m.category,
                                                 m.product),
                  training |-> m.training,
                  wrote |-> acc.wrote \/ m.wrote]
             Rest(next) == match_items(sm, inventory, shopdata, Tail(request), next)
         IN  The({Rest(next) :
                    next \in {The({Add(m) :
                                m \in {match_item(sm, inventory, shopdata, acc.training,
                                                  Head(request).key,
                                                  Head(request).value)}})}})

\* lines 100-102: the inventory rows of the product joined with their shop's row.
RECURSIVE merge(_, _)
merge(left, shopdata) ==
    IF Len(left) = 0 THEN <<>>
    ELSE LET row == Head(left)
             SameShop(shop) == shop.shopId = row.shopId
             right == SelectSeq(shopdata, SameShop)
         IN  [i \in 1..Len(right) |->
                 [shopId |-> row.shopId, productName |-> row.productName,
                  rating |-> right[i].rating, price |-> right[i].price,
                  queue_size |-> right[i].queue_size]]
             \o merge(Tail(left), shopdata)

product_shops(inventory, shopdata, product) ==
    LET IsProduct(row) == row.productName = product
    IN  merge(SelectSeq(inventory, IsProduct), shopdata)

\* lines 98-109: per matched product, its ten best-rated shops.
RECURSIVE find_shops(_, _, _, _)
find_shops(inventory, shopdata, matched_results, recommendations) ==
    IF Len(matched_results) = 0 THEN recommendations
    ELSE LET product == Head(matched_results).value
             Add(shops) ==
                 IF Len(shops) = 0 THEN recommendations
                 ELSE SetItem(recommendations, product,
                              head(sort_values(shops, "rating", FALSE), TOP_N))
             Rest(next) == find_shops(inventory, shopdata, Tail(matched_results), next)
         IN  The({Rest(next) :
                    next \in {The({Add(shops) :
                                shops \in {product_shops(inventory, shopdata, product)}})}})

\* lines 112-118: the filter re-sorts each product's shops.
apply_filter(recommendations, filter_choice) ==
    LET Filtered(shops) ==
            IF filter_choice = 1 THEN head(sort_values(shops, "queue_size", TRUE), TOP_N)
            ELSE IF filter_choice = 2 THEN head(sort_values(shops, "price", TRUE), TOP_N)
            ELSE head(sort_values(shops, "rating", FALSE), TOP_N)
    IN  [i \in 1..Len(recommendations) |->
            Item(recommendations[i].key,
                 The({Filtered(shops) : shops \in {recommendations[i].value}}))]

\* Line 126 without the exclusion of the shops already chosen.
available_shops_all(shops, chosen_shops) == shops

\* line 126: the shops not yet chosen for this path.
available_shops(shops, chosen_shops) ==
    LET NotChosen(row) == row.shopId \notin chosen_shops
    IN  SelectSeq(shops, NotChosen)

\* Lines 126-127 without the sort by rating: the filter's order decides.
ranked_available_unsorted(shops, chosen_shops) == available_shops(shops, chosen_shops)

\* lines 126-127: the shops not yet chosen, best rating first.
ranked_available(shops, chosen_shops) ==
    sort_values(available_shops(shops, chosen_shops), "rating", FALSE)

\* lines 123-142: one path, product by product, never the same shop twice.
RECURSIVE generate_path(_, _, _)
generate_path(recommendations, chosen_shops, path_shops) ==
    IF Len(recommendations) = 0 THEN path_shops
    ELSE LET product == Head(recommendations).key
             Rest(chosen, path) == generate_path(Tail(recommendations), chosen, path)
             Pick(available) ==
                 IF Len(available) = 0 THEN Rest(chosen_shops, path_shops)
                 ELSE The({Rest(chosen, path) :
                            chosen \in {chosen_shops \cup {available[1].shopId}},
                            path \in {Append(path_shops,
                                             [shopId |-> available[1].shopId,
                                              product |-> product,
                                              rating |-> available[1].rating,
                                              price |-> available[1].price,
                                              queue_size |-> available[1].queue_size])}})
         IN  The({Pick(available) :
                    available \in {ranked_available(Head(recommendations).value,
                                                    chosen_shops)}})

\* lines 121-143
generate_paths(recommendations) ==
    The({[n \in 1..NUM_PATHS |-> generate_path(filtered, {}, <<>>)] :
            filtered \in {recommendations}})

\* lines 98-143 together
possible_paths(inventory, shopdata, matched_results, filter_choice) ==
    generate_paths(apply_filter(find_shops(inventory, shopdata, matched_results, <<>>),
                                filter_choice))

(***************************************************************************)
(* The commit (lines 150-161).  Each update reads the dataframe, computes, *)
(* and writes the dataframe: the read and the write are operators of their *)
(* own, so that overlapping requests can be put between them.              *)
(***************************************************************************)
\* lines 154-157, the read: the stock of the rows of (shop_id, product), by row.
read_stock(inventory, shop_id, product) ==
    [i \in {k \in 1..Len(inventory) : /\ inventory[k].shopId = shop_id
                                      /\ inventory[k].productName = product}
        |-> inventory[i].stockAvailability]

\* lines 154-157, the write: those rows take the values read, less one.
write_stock(inventory, values) ==
    [i \in 1..Len(inventory) |->
        IF i \in DOMAIN values
        THEN [inventory[i] EXCEPT !.stockAvailability = values[i] - 1]
        ELSE inventory[i]]

\* line 158, the write: the whole column takes the values read, none below 0.
write_clip(inventory, values) ==
    [i \in 1..Len(inventory) |->
        [inventory[i] EXCEPT !.stockAvailability = Max(values[i], 0)]]

\* Lines 154-157 without line 158.
decrement_stock_unclipped(inventory, shop_id, product) ==
    write_stock(inventory, read_stock(inventory, shop_id, product))

\* lines 154-158 without interruption
decrement_stock(inventory, shop_id, product) ==
    LET minus == write_stock(inventory, read_stock(inventory, shop_id, product))
    IN  write_clip(minus, Column(minus, "stockAvailability"))

\* line 159, the read: the queue_size of the shop's rows, by row.
read_queue(shopdata, shop_id) ==
    [i \in {k \in 1..Len(shopdata) : shopdata[k].shopId = shop_id}
        |-> shopdata[i].queue_size]

\* line 159, the write: those rows take the values read, plus one.
write_queue(shopdata, values) ==
    [i \in 1..Len(shopdata) |->
        IF i \in DOMAIN values
        THEN [shopdata[i] EXCEPT !.queue_size = values[i] + 1]
        ELSE shopdata[i]]

\* Line 159 without its row mask.
increment_queue_unmasked(shopdata, shop_id) ==
    [i \in 1..Len(shopdata) |-> [shopdata[i] EXCEPT !.queue_size = @ + 1]]

\* line 159 without interruption
increment_queue(shopdata, shop_id) ==
    write_queue(shopdata, read_queue(shopdata, shop_id))

\* Line 160 taking the queue_size from before the increment.
token_number_before_increment(shopdata, shop_id) ==
    shopdata[SetMin({i \in 1..Len(shopdata) : shopdata[i].shopId = shop_id})].queue_size - 1

\* line 160: the queue_size of the shop's first row.
token_number(shopdata, shop_id) ==
    shopdata[SetMin({i \in 1..Len(shopdata) : shopdata[i].shopId = shop_id})].queue_size

\* line 161: the path entry with its token.
with_token(shop, new_token_number) ==
    [shopId |-> shop.shopId, product |-> shop.product, rating |-> shop.rating,
     price |-> shop.price, queue_size |-> shop.queue_size,
     new_token_number |-> new_token_number]

\* lines 151-161: the commit loop over the selected path, without interruption.
RECURSIVE commit(_, _, _, _)
commit(inventory, shopdata, todo, done) ==
    IF Len(todo) = 0
    THEN [inventory |-> inventory, shopdata |-> shopdata, selected_path |-> done]
    ELSE LET shop == Head(todo)
             Rest(inv, shops) ==
                 The({commit(inv, shops, Tail(todo), path) :
                        path \in {Append(done, with_token(shop,
                                                token_number(shops, shop.shopId)))}})
         IN  The({Rest(inv, shops) :
                    inv \in {decrement_stock(inventory, shop.shopId, shop.product)},
                    shops \in {increment_queue(shopdata, shop.shopId)}})

\* Line 145 with its second test left out.
no_valid_path_without_paths_only(paths, selected_path_index) ==
    Len(paths) = 0

\* line 145
no_valid_path(paths, selected_path_index) ==
    Len(paths) = 0 \/ Len(paths[selected_path_index + 1]) = 0

(***************************************************************************)
(* State                                                                   *)
(***************************************************************************)
VARIABLES
    inventory_df,         \* line 13: the inventory rows
    shopdata_df,          \* line 14: the shop rows
    fuzzy_training_data,  \* lines 21-25: the training cache
    matcher,              \* the sequence matcher fuzzywuzzy found at import
    last_call,            \* what the most recent call was given and returned
    files_written,        \* the files written by the most recent call
    before,               \* the two dataframes as the most recent call found them
    previous,             \* the path committed by the call before it and the
                          \* queue_size column that call found
    threads               \* the requests being served at the same time

vars == <<inventory_df, shopdata_df, fuzzy_training_data, matcher, last_call,
          files_written, before, previous, threads>>

\* The requests: dicts of at most MaxItems items, category query -> product query.
RequestsOfLen(n) ==
    {r \in [1..n -> {Item(c, p) : c \in CategoryQueries, p \in ProductQueries}] :
        \A i, j \in 1..n : i # j => r[i].key # r[j].key}

Requests == UNION {RequestsOfLen(n) : n \in 0..MaxItems}

\* 1: time, 2: price, anything else: rating
FilterChoices == {1, 2, 3}

PathIndexes == 0..MaxPathIndex

\* The (shop, product) pairs of a path, in order.
PathKey(path) == [k \in 1..Len(path) |-> <<path[k].shopId, path[k].product>>]

NoCall == [op |-> "none", outcome |-> "none"]

Snapshot(inventory, shopdata) == [inventory |-> inventory, shopdata |-> shopdata]

\* The state after import: the datasets loaded (lines 13-14), the training
\* data as the file has it (lines 21-25), nothing called yet.
Loaded(catalogs, training_files, matchers) ==
    /\ \E catalog \in catalogs :
        /\ inventory_df = catalog.inventory
        /\ shopdata_df = catalog.shopdata
        /\ before = Snapshot(catalog.inventory, catalog.shopdata)
        /\ previous = [path |-> <<>>,
                       queue_size |-> Column(catalog.shopdata, "queue_size")]
    /\ fuzzy_training_data \in training_files
    /\ matcher \in matchers
    /\ last_call = NoCall
    /\ files_written = {}

\* A first start: no training file yet.
Init ==
    /\ Loaded(Catalogs, {EmptyTraining}, Matchers)
    /\ threads = <<>>

\* lines 83-95 of a call in the current state
Matched(request) ==
    match_items(matcher, inventory_df, shopdata_df, request,
                [matched_results |-> <<>>, training |-> fuzzy_training_data,
                 wrote |-> FALSE])

\* Lines 145-172 of a call, after matching (m) and path generation (paths).
SelectAndCommit(m, paths, selected_path_index) ==
    LET trained == IF m.wrote THEN {"fuzzy_training"} ELSE {}
    IN  /\ fuzzy_training_data' = m.training
        /\ IF no_valid_path(paths, selected_path_index)
           THEN \* lines 146-147
                /\ last_call' = [op |-> "evaluate_recommendations",
                                 outcome |-> "no_valid_path",
                                 possible_paths |-> paths]
                /\ files_written' = trained
                /\ UNCHANGED <<inventory_df, shopdata_df>>
           ELSE \* lines 150-172
                \E c \in {commit(inventory_df, shopdata_df,
                                 paths[selected_path_index + 1], <<>>)} :
                    /\ inventory_df' = c.inventory
                    /\ shopdata_df' = c.shopdata
                    /\ last_call' =
                         [op |-> "evaluate_recommendations",
                          outcome |-> "selected",
                          selected_path |-> c.selected_path,
                          possible_paths |->
                             [paths EXCEPT ![selected_path_index + 1] = c.selected_path]]
                    /\ files_written' = trained \cup {"inventory", "shopdata"}

\* A call of evaluate_recommendations, start to end.
Evaluate ==
    /\ \A i \in 1..Len(shopdata_df) : shopdata_df[i].queue_size < MaxQueue
    /\ \E request \in Requests :
        \E m \in {Matched(request)} :
            \E filter_choice \in FilterChoices :
                \E paths \in {possible_paths(inventory_df, shopdata_df,
                                              m.matched_results, filter_choice)} :
                    \E selected_path_index \in PathIndexes :
                        SelectAndCommit(m, paths, selected_path_index)
    /\ before' = Snapshot(inventory_df, shopdata_df)
    /\ previous' = [path |-> IF last_call.outcome = "selected"
                             THEN PathKey(last_call.selected_path) ELSE <<>>,
                    queue_size |-> Column(before.shopdata, "queue_size")]
    /\ UNCHANGED <<matcher, threads>>

Next == Evaluate

Spec == Init /\ [][Next]_vars

(***************************************************************************)
(* The fuzzy matcher called on its own, with any vocabulary                *)
(***************************************************************************)
Kinds == {"categories", "products"}

FuzzyQueries == {qMeat, qGrocery, qLobs, sLobster, qGibberish}

\* The vocabularies of the loaded catalog, and an empty one.
Vocabularies == {<<>>, unique_categories(shopdata_df), unique_products(inventory_df)}

\* What train_fuzzy_match is called with directly.
TrainQueries == {qLobs}

TrainTerms == {sLobster, sLobsters}

InitFuzzy ==
    /\ Loaded({CatalogDistinct}, TrainingFiles, Matchers)
    /\ threads = <<>>

\* A call of fuzzy_match (lines 33-40).
FuzzyMatch ==
    /\ \E query \in FuzzyQueries, choices \in Vocabularies, category_type \in Kinds :
        \E r \in {fuzzy_match(matcher, fuzzy_training_data, query, choices,
                               category_type)} :
            /\ fuzzy_training_data' = r.training
            /\ last_call' = [op |-> "fuzzy_match",
                             outcome |-> IF r.raised THEN "raised" ELSE "returned",
                             query |-> query, choices |-> choices,
                             category_type |-> category_type,
                             cached |-> query \in DOMAIN fuzzy_training_data[category_type],
                             ret |-> r.ret]
            /\ files_written' = IF r.wrote THEN {"fuzzy_training"} ELSE {}
    /\ UNCHANGED <<inventory_df, shopdata_df, matcher, before, previous, threads>>

\* A call of train_fuzzy_match (lines 27-31).
TrainFuzzyMatch ==
    /\ \E query \in TrainQueries, actual \in TrainTerms, category_type \in Kinds :
        /\ fuzzy_training_data' =
                train_fuzzy_match(fuzzy_training_data, query, actual, category_type)
        /\ last_call' = [op |-> "train_fuzzy_match", outcome |-> "returned",
                         query |-> query, actual |-> actual,
                         category_type |-> category_type,
                         cached |-> query \in DOMAIN fuzzy_training_data[category_type]]
    /\ files_written' = {"fuzzy_training"}
    /\ UNCHANGED <<inventory_df, shopdata_df, matcher, before, previous, threads>>

NextFuzzy == FuzzyMatch \/ TrainFuzzyMatch

SpecFuzzy == InitFuzzy /\ [][NextFuzzy]_vars

(***************************************************************************)
(* Two requests served at the same time.  The endpoint runs under Flask's  *)
(* threaded server (app.py, line 110) and nothing in evaluate_recommenda-  *)
(* tions or in the fuzzy matcher takes a lock, so a thread can be          *)
(* suspended between any two accesses of the training cache, of a          *)
(* dataframe or of a file.  A step below holds one access of shared state  *)
(* and the work on the thread's own locals that follows it.                *)
(***************************************************************************)
Threads == {1, 2}

ConcRequests == {<<Item(qGrocery, sRice)>>, <<Item(qMeat, sLobster)>>,
                 <<Item(qGibberish, sRice)>>}

\* app.py, lines 57 and 102: the endpoint passes 1 (time) or 2.
ConcFilterChoices == {1, 2}

NoTraining == [query |-> <<>>, actual |-> None, category_type |-> "none"]

\* The locals of a request's thread.
Idle == [pc |-> "idle", outcome |-> "none", filter_choice |-> 0,
         items |-> <<>>, matched_category |-> None, matched_product |-> None,
         matched_results |-> <<>>, train |-> NoTraining, dumping |-> "none",
         size |-> 0, to_find |-> <<>>, recommendations |-> <<>>,
         todo |-> <<>>, done |-> <<>>, values |-> <<>>]

\* The request is over: its locals are gone, its outcome and the path it
\* returned remain.
Returned(outcome, selected_path) ==
    [Idle EXCEPT !.pc = "done", !.outcome = outcome, !.done = selected_path]

InitConc ==
    /\ Loaded(Catalogs, {EmptyTraining}, Matchers)
    /\ threads = [t \in Threads |-> Idle]

\* line 83: the call is entered.
Begin(t) ==
    /\ threads[t].pc = "idle"
    /\ \E request \in ConcRequests, filter_choice \in ConcFilterChoices :
        threads' = [threads EXCEPT ![t] =
            [@ EXCEPT !.pc = IF Len(request) > 0 THEN "match_category"
                             ELSE "generate_paths",
                      !.filter_choice = filter_choice,
                      !.items = request]]
    /\ UNCHANGED <<inventory_df, shopdata_df, fuzzy_training_data, matcher, last_call,
                   files_written, before, previous>>

\* lines 34-37 of a fuzzy_match call: the cached term, or the best of the
\* vocabulary; a term that passes the threshold is to be trained (line 38).
Looked(th, r, query, category_type) ==
    IF r.raised THEN Returned("raised", <<>>)
    ELSE IF r.wrote
    THEN [th EXCEPT !.pc = "train_check",
                    !.train = [query |-> query, actual |-> r.ret,
                               category_type |-> category_type]]
    ELSE IF category_type = "categories"
    THEN [th EXCEPT !.pc = "match_product", !.matched_category = r.ret]
    ELSE [th EXCEPT !.pc = "keep_item", !.matched_product = r.ret]

\* line 86, up to the call of train_fuzzy_match
MatchCategory(t) ==
    /\ threads[t].pc = "match_category"
    /\ \E query \in {Head(threads[t].items).key} :
        \E r \in {fuzzy_match(matcher, fuzzy_training_data, query,
                               unique_categories(shopdata_df), "categories")} :
            threads' = [threads EXCEPT ![t] = Looked(@, r, query, "categories")]
    /\ UNCHANGED <<inventory_df, shopdata_df, fuzzy_training_data, matcher, last_call,
                   files_written, before, previous>>

\* line 87, up to the call of train_fuzzy_match
MatchProduct(t) ==
    /\ threads[t].pc = "match_product"
    /\ \E query \in {Head(threads[t].items).value} :
        \E r \in {fuzzy_match(matcher, fuzzy_training_data, query,
                               unique_products(inventory_df), "products")} :
            threads' = [threads EXCEPT ![t] = Looked(@, r, query, "products")]
    /\ UNCHANGED <<inventory_df, shopdata_df, fuzzy_training_data, matcher, last_call,
                   files_written, before, previous>>

\* line 28: is the query cached by now?
TrainCheck(t) ==
    /\ threads[t].pc = "train_check"
    /\ threads' = [threads EXCEPT ![t].pc =
            IF threads[t].train.query
                    \in DOMAIN fuzzy_training_data[threads[t].train.category_type]
            THEN "train_open" ELSE "train_insert"]
    /\ UNCHANGED <<inventory_df, shopdata_df, fuzzy_training_data, matcher, last_call,
                   files_written, before, previous>>

\* line 29: the entry is stored, whatever another thread stored since line 28.
TrainInsert(t) ==
    /\ threads[t].pc = "train_insert"
    /\ fuzzy_training_data' =
            store_entry(fuzzy_training_data, threads[t].train.query,
                        threads[t].train.actual, threads[t].train.category_type)
    /\ threads' = [threads EXCEPT ![t].pc = "train_open"]
    /\ UNCHANGED <<inventory_df, shopdata_df, matcher, last_call, files_written,
                   before, previous>>

\* line 30: the training file is opened for writing.
TrainOpen(t) ==
    /\ threads[t].pc = "train_open"
    /\ files_written' = files_written \cup {"fuzzy_training"}
    /\ threads' = [threads EXCEPT ![t].pc = "dump_begin", ![t].dumping = "categories"]
    /\ UNCHANGED <<inventory_df, shopdata_df, fuzzy_training_data, matcher, last_call,
                   before, previous>>

\* lines 38-39: train_fuzzy_match is back, fuzzy_match returns the term.
Trained(th) ==
    IF th.train.category_type = "categories"
    THEN [th EXCEPT !.pc = "match_product", !.matched_category = th.train.actual,
                    !.train = NoTraining, !.dumping = "none", !.size = 0]
    ELSE [th EXCEPT !.pc = "keep_item", !.matched_product = th.train.actual,
                    !.train = NoTraining, !.dumping = "none", !.size = 0]

\* line 31: json.dump is through with one dict of the cache and goes to the next.
Dumped(th) ==
    IF th.dumping = "categories"
    THEN [th EXCEPT !.pc = "dump_begin", !.dumping = "products", !.size = 0]
    ELSE Trained(th)

\* line 31: json.dump comes to a dict of the cache.  An empty one is written
\* as it is; for another the encoder starts to iterate over its items, and the
\* iterator keeps the number of entries it found.
DumpBegin(t) ==
    /\ threads[t].pc = "dump_begin"
    /\ \E size \in {Cardinality(DOMAIN fuzzy_training_data[threads[t].dumping])} :
        threads' = [threads EXCEPT ![t] =
            IF size = 0 THEN Dumped(@)
            ELSE [@ EXCEPT !.pc = "dump_end", !.size = size]]
    /\ UNCHANGED <<inventory_df, shopdata_df, fuzzy_training_data, matcher, last_call,
                   files_written, before, previous>>

\* line 31: the iterator is asked for its next item, up to the last time.  When
\* the dict has another number of entries than the iterator found, it raises
\* RuntimeError (dictionary changed size during iteration), which nothing
\* between here and the endpoint catches: the request fails.  The calls
\* before the last one raise in the same case and change nothing otherwise.
DumpEnd(t) ==
    /\ threads[t].pc = "dump_end"
    /\ threads' = [threads EXCEPT ![t] =
            IF Cardinality(DOMAIN fuzzy_training_data[threads[t].dumping])
                    # threads[t].size
            THEN Returned("raised", <<>>)
            ELSE Dumped(@)]
    /\ UNCHANGED <<inventory_df, shopdata_df, fuzzy_training_data, matcher, last_call,
                   files_written, before, previous>>

\* lines 88-95, then the next item of the request (line 85) or line 98
KeepItem(t) ==
    /\ threads[t].pc = "keep_item"
    /\ \E product \in {retry_product(matcher, inventory_df, threads[t].matched_category,
                                     Head(threads[t].items).value,
                                     threads[t].matched_product)} :
        \E results \in {keep_match(threads[t].matched_results,
                                   threads[t].matched_category, product)} :
            threads' = [threads EXCEPT ![t] =
                [@ EXCEPT !.pc = IF Len(threads[t].items) > 1 THEN "match_category"
                                 ELSE IF Len(results) > 0 THEN "find_shops"
                                 ELSE "generate_paths",
                          !.items = Tail(@),
                          !.matched_category = None,
                          !.matched_product = None,
                          !.matched_results = results,
                          !.to_find = IF Len(threads[t].items) > 1 THEN <<>>
                                      ELSE results]]
    /\ UNCHANGED <<inventory_df, shopdata_df, fuzzy_training_data, matcher, last_call,
                   files_written, before, previous>>

\* lines 100-109: the shops of one matched product, as the dataframes are now.
FindShops(t) ==
    /\ threads[t].pc = "find_shops"
    /\ \E found \in {find_shops(inventory_df, shopdata_df,
                                <<Head(threads[t].to_find)>>,
                                threads[t].recommendations)} :
        threads' = [threads EXCEPT ![t] =
            [@ EXCEPT !.pc = IF Len(threads[t].to_find) > 1 THEN "find_shops"
                             ELSE "generate_paths",
                      !.to_find = Tail(@),
                      !.recommendations = found]]
    /\ UNCHANGED <<inventory_df, shopdata_df, fuzzy_training_data, matcher, last_call,
                   files_written, before, previous>>

\* lines 112-150: filter, generate the paths, select the first (the endpoint
\* passes no selected_path_index); lines 146-147 when it is empty.
GeneratePaths(t) ==
    /\ threads[t].pc = "generate_paths"
    /\ \E paths \in {generate_paths(apply_filter(threads[t].recommendations,
                                                 threads[t].filter_choice))} :
        threads' = [threads EXCEPT ![t] =
            IF no_valid_path(paths, 0)
            THEN Returned("no_valid_path", <<>>)
            ELSE [@ EXCEPT !.pc = "read_stock", !.todo = paths[1],
                           !.matched_results = <<>>, !.recommendations = <<>>]]
    /\ UNCHANGED <<inventory_df, shopdata_df, fuzzy_training_data, matcher, last_call,
                   files_written, before, previous>>

\* lines 154-157, the read
ReadStock(t) ==
    /\ threads[t].pc = "read_stock"
    /\ threads' = [threads EXCEPT ![t].pc = "write_stock",
                       ![t].values = read_stock(inventory_df, Head(threads[t].todo).shopId,
                                                Head(threads[t].todo).product)]
    /\ UNCHANGED <<inventory_df, shopdata_df, fuzzy_training_data, matcher, last_call,
                   files_written, before, previous>>

\* lines 154-157, the write
WriteStock(t) ==
    /\ threads[t].pc = "write_stock"
    /\ inventory_df' = write_stock(inventory_df, threads[t].values)
    /\ threads' = [threads EXCEPT ![t].pc = "read_clip", ![t].values = <<>>]
    /\ UNCHANGED <<shopdata_df, fuzzy_training_data, matcher, last_call,
                   files_written, before, previous>>

\* line 158, the read of the column
ReadClip(t) ==
    /\ threads[t].pc = "read_clip"
    /\ threads' = [threads EXCEPT ![t].pc = "write_clip",
                       ![t].values = Column(inventory_df, "stockAvailability")]
    /\ UNCHANGED <<inventory_df, shopdata_df, fuzzy_training_data, matcher, last_call,
                   files_written, before, previous>>

\* line 158, the assignment of the clipped column
WriteClip(t) ==
    /\ threads[t].pc = "write_clip"
    /\ inventory_df' = write_clip(inventory_df, threads[t].values)
    /\ threads' = [threads EXCEPT ![t].pc = "read_queue", ![t].values = <<>>]
    /\ UNCHANGED <<shopdata_df, fuzzy_training_data, matcher, last_call,
                   files_written, before, previous>>

\* line 159, the read
ReadQueue(t) ==
    /\ threads[t].pc = "read_queue"
    /\ threads' = [threads EXCEPT ![t].pc = "write_queue",
                       ![t].values = read_queue(shopdata_df, Head(threads[t].todo).shopId)]
    /\ UNCHANGED <<inventory_df, shopdata_df, fuzzy_training_data, matcher, last_call,
                   files_written, before, previous>>

\* line 159, the write
WriteQueue(t) ==
    /\ threads[t].pc = "write_queue"
    /\ shopdata_df' = write_queue(shopdata_df, threads[t].values)
    /\ threads' = [threads EXCEPT ![t].pc = "read_token", ![t].values = <<>>]
    /\ UNCHANGED <<inventory_df, fuzzy_training_data, matcher, last_call,
                   files_written, before, previous>>

\* lines 160-161, then the next entry of the path
ReadToken(t) ==
    /\ threads[t].pc = "read_token"
    /\ LET shop == Head(threads[t].todo)
           entry == with_token(shop, token_number(shopdata_df, shop.shopId))
       IN  threads' = [threads EXCEPT
                           ![t].pc = IF Len(threads[t].todo) > 1 THEN "read_stock"
                                     ELSE "save_inventory",
                           ![t].todo = Tail(@),
                           ![t].done = Append(@, entry)]
    /\ UNCHANGED <<inventory_df, shopdata_df, fuzzy_training_data, matcher, last_call,
                   files_written, before, previous>>

\* line 164: the inventory file is written.
SaveInventory(t) ==
    /\ threads[t].pc = "save_inventory"
    /\ files_written' = files_written \cup {"inventory"}
    /\ threads' = [threads EXCEPT ![t].pc = "save_shopdata"]
    /\ UNCHANGED <<inventory_df, shopdata_df, fuzzy_training_data, matcher, last_call,
                   before, previous>>

\* lines 165-172: the shop file is written and the selected path returned.
SaveShopdata(t) ==
    /\ threads[t].pc = "save_shopdata"
    /\ files_written' = files_written \cup {"shopdata"}
    /\ threads' = [threads EXCEPT ![t] = Returned("selected", threads[t].done)]
    /\ UNCHANGED <<inventory_df, shopdata_df, fuzzy_training_data, matcher, last_call,
                   before, previous>>

NextConc ==
    \E t \in Threads :
        \/ Begin(t)
        \/ MatchCategory(t)
        \/ MatchProduct(t)
        \/ TrainCheck(t)
        \/ TrainInsert(t)
        \/ TrainOpen(t)
        \/ DumpBegin(t)
        \/ DumpEnd(t)
        \/ KeepItem(t)
        \/ FindShops(t)
        \/ GeneratePaths(t)
        \/ ReadStock(t)
        \/ WriteStock(t)
        \/ ReadClip(t)
        \/ WriteClip(t)
        \/ ReadQueue(t)
        \/ WriteQueue(t)
        \/ ReadToken(t)
        \/ SaveInventory(t)
        \/ SaveShopdata(t)

SpecConc == InitConc /\ [][NextConc]_vars

(***************************************************************************)
(* Properties                                                              *)
(***************************************************************************)
Evaluated == last_call.op = "evaluate_recommendations"

Committed == Evaluated /\ last_call.outcome = "selected"

\* The entries of a path that name the shop / the inventory row.
EntriesOfShop(path, shop_id) == {k \in 1..Len(path) : path[k].shopId = shop_id}

EntriesOfRow(path, row) ==
    {k \in 1..Len(path) : path[k].shopId = row.shopId /\ path[k].product = row.productName}

\* C1: after any sequence of evaluate_recommendations calls no inventory row has
\* a negative stockAvailability; a commit takes one unit per entry off the row it
\* names and stops at 0, so a row that was at 0 stays at 0 and the call still
\* returns its selected path.
C1_StockNeverNegative ==
    /\ \A i \in 1..Len(inventory_df) : inventory_df[i].stockAvailability >= 0
    /\ Committed =>
        \A i \in 1..Len(inventory_df) :
            inventory_df[i].stockAvailability =
                Max(before.inventory[i].stockAvailability
                        - Cardinality(EntriesOfRow(last_call.selected_path, inventory_df[i])),
                    0)

\* A commit on a row that had no stock left: the row is still at 0.
C1_Witness ==
    /\ Committed
    /\ \E i \in 1..Len(inventory_df) :
        /\ EntriesOfRow(last_call.selected_path, inventory_df[i]) # {}
        /\ before.inventory[i].stockAvailability = 0
        /\ inventory_df[i].stockAvailability = 0

\* C2: a commit raises a shop's queue_size by exactly one per entry of the
\* selected path that names the shop, and leaves the other shops' queue_size
\* alone; when the same path is committed by two calls in succession, each of
\* its shops' queue_size has gone up by two.
C2_QueueGrowsByOnePerEntry ==
    Evaluated =>
        /\ \A i \in 1..Len(shopdata_df) :
            shopdata_df[i].queue_size =
                before.shopdata[i].queue_size
                    + (IF last_call.outcome = "selected"
                       THEN Cardinality(EntriesOfShop(last_call.selected_path,
                                                      shopdata_df[i].shopId))
                       ELSE 0)
        /\ (last_call.outcome = "selected"
                /\ previous.path = PathKey(last_call.selected_path)) =>
            \A i \in 1..Len(shopdata_df) :
                EntriesOfShop(last_call.selected_path, shopdata_df[i].shopId) # {} =>
                    shopdata_df[i].queue_size = previous.queue_size[i] + 2

\* The same path committed twice in succession: its shop's queue is two longer.
C2_Witness ==
    /\ Committed
    /\ previous.path = PathKey(last_call.selected_path)
    /\ \E i \in 1..Len(shopdata_df) :
        /\ EntriesOfShop(last_call.selected_path, shopdata_df[i].shopId) # {}
        /\ shopdata_df[i].queue_size = previous.queue_size[i] + 2

\* C3: no path of possible_paths (the selected path is one of them) has two
\* entries with the same shopId.
C3_NoShopTwiceInAPath ==
    Evaluated =>
        \A n \in 1..Len(last_call.possible_paths) :
            \A j, k \in 1..Len(last_call.possible_paths[n]) :
                j # k => last_call.possible_paths[n][j].shopId
                            # last_call.possible_paths[n][k].shopId

\* A path whose second product went to a lesser shop because the first entry
\* had taken the better-rated shop that also sells it.
C3_Witness ==
    /\ Evaluated
    /\ \E n \in 1..Len(last_call.possible_paths) :
        LET path == last_call.possible_paths[n]
        IN  /\ Len(path) >= 2
            /\ \E i \in 1..Len(before.inventory), s \in 1..Len(before.shopdata) :
                /\ before.inventory[i].productName = path[2].product
                /\ before.inventory[i].shopId = path[1].shopId
                /\ before.shopdata[s].shopId = path[1].shopId
                /\ before.shopdata[s].rating > path[2].rating

\* C4: when two items of a request resolve to the same canonical category, the
\* matched results hold the product of the first of them.
C4_FirstOccurrenceWins ==
    \A request \in Requests :
        LET results == Matched(request).matched_results
            ItemMatch(i) ==
                match_item(matcher, inventory_df, shopdata_df,
                           Matched(SubSeq(request, 1, i - 1)).training,
                           request[i].key, request[i].value)
            Kept(i) == Truthy(ItemMatch(i).category) /\ Truthy(ItemMatch(i).product)
            First(i) ==
                /\ Kept(i)
                /\ \A j \in 1..(i - 1) :
                    ~(Kept(j) /\ ItemMatch(j).category = ItemMatch(i).category)
        IN  \A i \in 1..Len(request) :
                First(i) => \E k \in 1..Len(results) :
                                /\ results[k].key = ItemMatch(i).category
                                /\ results[k].value = ItemMatch(i).product

\* C5: an entry of the training cache is never changed or removed by a call of
\* fuzzy_match or train_fuzzy_match, and a fuzzy_match call for a cached
\* (query, kind) returns the cached term whatever vocabulary it is given.
C5_CacheEntriesAreKept ==
    [][/\ \A kind \in Kinds :
            \A q \in DOMAIN fuzzy_training_data[kind] :
                /\ q \in DOMAIN fuzzy_training_data'[kind]
                /\ fuzzy_training_data'[kind][q] = fuzzy_training_data[kind][q]
       /\ (last_call'.op = "fuzzy_match"
            /\ last_call'.query \in DOMAIN fuzzy_training_data[last_call'.category_type]) =>
                last_call'.ret =
                    fuzzy_training_data[last_call'.category_type][last_call'.query]
      ]_vars

\* train_fuzzy_match called for a cached key with another term: the cached term stayed.
C5_Witness ==
    /\ last_call.op = "train_fuzzy_match"
    /\ last_call.cached
    /\ fuzzy_training_data[last_call.category_type][last_call.query] # last_call.actual

\* C6 as stated: whatever the cache holds, fuzzy_match returns None or a member
\* of the vocabulary it was given.
C6_ReturnsMemberOfVocabulary ==
    (last_call.op = "fuzzy_match" /\ last_call.outcome = "returned") =>
        \/ last_call.ret = None
        \/ last_call.ret \in Range(last_call.choices)

\* C6 amended: a fuzzy_match call that returns gives, for a cached (query,
\* kind), the cached term, and otherwise None or a member of the vocabulary it
\* was given.
C6_ReturnsCachedTermOrMember ==
    (last_call.op = "fuzzy_match" /\ last_call.outcome = "returned") =>
        IF last_call.cached
        THEN last_call.ret = fuzzy_training_data[last_call.category_type][last_call.query]
        ELSE \/ last_call.ret = None
             \/ last_call.ret \in Range(last_call.choices)

\* A call that returned the cached term although the vocabulary it was given
\* does not have it.
C6_Witness ==
    /\ last_call.op = "fuzzy_match"
    /\ last_call.outcome = "returned"
    /\ last_call.cached
    /\ last_call.ret = fuzzy_training_data[last_call.category_type][last_call.query]
    /\ last_call.ret \notin Range(last_call.choices)

\* C7: a call that returns the no-valid-path result has committed nothing: both
\* dataframes are as the call found them, neither dataset file was written, and
\* the result carries all of possible_paths; a call returns that result whenever
\* the path selected is empty.
C7_NoValidPathCommitsNothing ==
    Evaluated =>
        /\ last_call.outcome = "no_valid_path" =>
            /\ inventory_df = before.inventory
            /\ shopdata_df = before.shopdata
            /\ files_written \cap {"inventory", "shopdata"} = {}
            /\ Len(last_call.possible_paths) = NUM_PATHS
        /\ last_call.outcome = "selected" => Len(last_call.selected_path) > 0

\* The no-valid-path result, with the training file written by the matching.
C7_Witness ==
    /\ Evaluated
    /\ last_call.outcome = "no_valid_path"
    /\ \A n \in 1..NUM_PATHS : last_call.possible_paths[n] = <<>>
    /\ files_written = {"fuzzy_training"}

\* C8: an item whose product query is not cached and scores below THRESHOLD
\* against the global product vocabulary and against the products of its
\* matched category is dropped: it gets no matched product, the product cache
\* is not written, and a request of that item alone yields only empty paths.
C8_MissIsDropped ==
    \A request \in Requests :
        \A i \in 1..Len(request) :
            LET training == Matched(SubSeq(request, 1, i - 1)).training
                product == request[i].value
                m == match_item(matcher, inventory_df, shopdata_df, training,
                                request[i].key, product)
                among == category_products(inventory_df, m.category)
                miss ==
                    /\ product \notin DOMAIN training.products
                    /\ extractOne(matcher, product, unique_products(inventory_df)).score
                            < THRESHOLD
                    /\ Len(among) > 0 =>
                            extractOne(matcher, product, among).score < THRESHOLD
            IN  miss =>
                    /\ ~Truthy(m.product)
                    /\ m.training.products = training.products
                    /\ Len(request) = 1 =>
                        \A n \in 1..NUM_PATHS :
                            possible_paths(inventory_df, shopdata_df,
                                           Matched(request).matched_results, 3)[n] = <<>>

\* The shop row and the inventory row a path entry names.
ShopRowOf(entry) == CHOOSE i \in 1..Len(shopdata_df) : shopdata_df[i].shopId = entry.shopId

InvRowOf(entry) ==
    CHOOSE i \in 1..Len(inventory_df) :
        /\ inventory_df[i].shopId = entry.shopId
        /\ inventory_df[i].productName = entry.product

\* Both requests are done and each committed the same single entry.
BothCommittedSameEntry ==
    /\ \A t \in Threads : threads[t].pc = "done" /\ threads[t].outcome = "selected"
    /\ Len(threads[1].done) = 1
    /\ PathKey(threads[1].done) = PathKey(threads[2].done)

\* C9: the commit takes no lock.  When two overlapping requests have both
\* committed an entry for the same shop and product, the shop's queue_size has
\* grown by one or by two and the stock has dropped by one or by two (never
\* below 0); each request's new_token_number is the queue_size it found after
\* its own increment; and when the queue grew by one only, an increment was
\* lost and both requests hold the same new_token_number.
C9_OverlappingCommits ==
    BothCommittedSameEntry =>
        LET entry == threads[1].done[1]
            queue0 == before.shopdata[ShopRowOf(entry)].queue_size
            queue == shopdata_df[ShopRowOf(entry)].queue_size
            stock0 == before.inventory[InvRowOf(entry)].stockAvailability
            stock == inventory_df[InvRowOf(entry)].stockAvailability
            token(t) == threads[t].done[1].new_token_number
        IN  /\ queue \in {queue0 + 1, queue0 + 2}
            /\ stock \in {Max(stock0 - 1, 0), Max(stock0 - 2, 0)}
            /\ \A t \in Threads : token(t) \in {queue0 + 1, queue0 + 2} /\ token(t) <= queue
            /\ queue = queue0 + 1 => token(1) = token(2)

\* The lost update: two commits of the same entry, the queue one longer, the
\* stock one lower, and the same token number for both requests.
C9_Witness ==
    /\ BothCommittedSameEntry
    /\ LET entry == threads[1].done[1]
       IN  /\ shopdata_df[ShopRowOf(entry)].queue_size
                = before.shopdata[ShopRowOf(entry)].queue_size + 1
           /\ before.inventory[InvRowOf(entry)].stockAvailability >= 2
           /\ inventory_df[InvRowOf(entry)].stockAvailability
                = before.inventory[InvRowOf(entry)].stockAvailability - 1
           /\ threads[1].done[1].new_token_number = threads[2].done[1].new_token_number

\* No two shops that sell the same product have the same rating.
DistinctRatings ==
    \A product \in Range(unique_products(inventory_df)) :
        LET shops == product_shops(inventory_df, shopdata_df, product)
        IN  \A i, j \in 1..Len(shops) : i # j => shops[i].rating # shops[j].rating

\* C10: in a catalog where the shops of each product have pairwise distinct
\* ratings, every request gets the same possible_paths whatever the filter
\* choice (1: time, 2: price, anything else: rating).
C10_FilterDoesNotChangePaths ==
    DistinctRatings =>
        \A request \in Requests :
            \E results \in {Matched(request).matched_results} :
                \E paths \in {possible_paths(inventory_df, shopdata_df, results, 3)} :
                    \A filter_choice \in FilterChoices :
                        possible_paths(inventory_df, shopdata_df, results, filter_choice)
                            = paths

\* Distinct ratings, a request whose shops the time filter puts in another
\* order than the rating filter, and a path committed for it.
C10_Witness ==
    /\ DistinctRatings
    /\ Committed
    /\ \E request \in RequestsOfLen(1) :
        \E results \in {Matched(request).matched_results} :
            \E shops \in {find_shops(inventory_df, shopdata_df, results, <<>>)} :
                /\ apply_filter(shops, 1) # apply_filter(shops, 3)
                /\ PathKey(possible_paths(inventory_df, shopdata_df, results, 1)[1])
                        = PathKey(last_call.selected_path)

====
